---- MODULE Spec2Model ----
(***************************************************************************)
(* locs: a recursive line counter (src/src/main.rs).                       *)
(*                                                                         *)
(* The model has four parts: the file system the program runs against,    *)
(* the line counter of write_info, the FileTraverser iterator (traverse,   *)
(* next, map_entry, has_ext) and the driver main.  A path is a sequence of *)
(* names, a name is a sequence of characters, so that has_ext is a real    *)
(* suffix test.  Spec is a run of main, SpecT the traverser pulled by a    *)
(* caller that never stops, SpecTFair the same under fairness of its       *)
(* steps, SpecL the line counter on every stream.                          *)
(***************************************************************************)
EXTENDS Naturals, Sequences, FiniteSets

(***************************************************************************)
(* Bounds of the model.                                                    *)
(***************************************************************************)
\* the size of a scenario: its file system nodes, plus the paths given by the
\* caller, plus the operations the environment fails, plus the lines counted
MaxSize == 5
\* the number of read events of a stream given to the line counter alone
MaxLen == 3
\* the file system nodes plus the roots of a scenario in which the traverser
\* is followed to its end under fairness
MaxLive == 4

(***************************************************************************)
(* Names, paths and the file system.                                       *)
(***************************************************************************)
\* the file names that occur in a directory
Names == { <<"a", "r">>, <<"r", "a">> }

\* the suffixes a caller may pass with -e
ExtStrings == { <<"r">>, <<"r", "a">> }

\* a path that names nothing in any file system of the model
Missing == << <<"x">> >>

\* "other": a special file, or a symlink met as a directory entry (file_type
\* does not follow it)
Kinds == {"file", "dir", "other"}

Parent(p) == SubSeq(p, 1, Len(p) - 1)

\* the paths one more node can be added at: a top-level name or a child of a node
Addable(S) == ({ <<n>> : n \in Names } \cup { Append(p, n) : p \in S, n \in Names }) \ S

RECURSIVE Shapes(_)
Shapes(k) ==
    IF k = 0 THEN { {} }
    ELSE LET prev == Shapes(k - 1)
         IN  prev \cup UNION { { S \cup {p} : p \in Addable(S) } : S \in prev }

\* a file system: the kind of every existing path; only a directory has children
FileSystems ==
    UNION { { k \in [S -> Kinds] :
                \A p \in S : Len(p) > 1 => k[Parent(p)] = "dir" } :
            S \in Shapes(MaxSize) }

RECURSIVE SeqsUpTo(_, _)
SeqsUpTo(S, k) ==
    IF k = 0 THEN { <<>> }
    ELSE LET prev == SeqsUpTo(S, k - 1)
         IN  prev \cup { Append(s, x) : s \in prev, x \in S }

\* Option<Vec<String>>: None, or Some of a vector of suffixes (possibly empty)
Filters ==
    { [some |-> FALSE, exts |-> {}] } \cup { [some |-> TRUE, exts |-> E] : E \in SUBSET ExtStrings }

VARIABLES
    fs,          \* the file system: path -> kind
    faults,      \* history: the operations that failed: <<kind, path>>
    extensions,  \* Args.extensions
    paths,       \* Args.paths
    pc,          \* the position of main
    files,       \* main: the paths that are regular files
    dirs,        \* main: the other paths; the roots given to traverse
    fi,          \* main: the index of the next direct file
    total,       \* main: the running total
    out,         \* the lines written to stdout so far
    sub_dirs,    \* FileTraverser.sub_dirs: the pending directories
    traverser,   \* FileTraverser.traverser: the entries the open ReadDir still holds
    item,        \* the pull in progress or the item the last pull returned
    opened,      \* history: the directories read_dir opened, in order
    tried,       \* history: the files the traverser called File::open on
    items,       \* history: the items the pulls returned, in order
    err,         \* history: the first failure the driver saw
    readErr,     \* history: the last write_info read an Err line
    stream,      \* the byte stream given to the line counter
    loc,         \* the result of the line counter
    visits,      \* history: for every directory opened, the pending list left
                 \* below it and the number of items returned before it
    handles      \* the file handles and directory cursors that are open

vars == << fs, faults, extensions, paths, pc, files, dirs, fi, total, out,
           sub_dirs, traverser, item, opened, tried, items, err, readErr,
           stream, loc, visits, handles >>

(***************************************************************************)
(* The line counter: BufReader::new(file).lines().count()                  *)
(*                                                                         *)
(* A stream is what the reads of a file deliver, in order:                 *)
(*   "c" a byte of valid text, "n" a newline, "x" a byte that is not valid *)
(*   UTF-8, "e" a read call that fails (it delivers no byte; the read      *)
(*   after it goes on).                                                    *)
(* Lines::next returns None at the end of the stream, Some(Ok(line)) for a *)
(* line (terminated or not), and Some(Err(_)) when the read fails or the   *)
(* line is not valid UTF-8; count() counts the Some items of either sort.  *)
(***************************************************************************)
Bytes == {"c", "n", "x"}
Events == Bytes \cup {"e"}

Streams == SeqsUpTo(Events, MaxLen)

\* the position after the item of Lines::next that starts at position i
RECURSIVE LineEnd(_, _)
LineEnd(s, i) ==
    IF i > Len(s) THEN i
    ELSE IF s[i] \in {"n", "e"} THEN i + 1
    ELSE LineEnd(s, i + 1)

RECURSIVE CountFrom(_, _)
CountFrom(s, i) == IF i > Len(s) THEN 0 ELSE 1 + CountFrom(s, LineEnd(s, i))

\* a count that only counts the terminators
LinesCountNewlines(s) == Cardinality({ i \in 1..Len(s) : s[i] \in {"n", "e"} })

\* .lines().count()
LinesCount(s) == CountFrom(s, 1)

\* some item of Lines is an Err
HasReadErr(s) == \E i \in 1..Len(s) : s[i] \in {"x", "e"}

(***************************************************************************)
(* File system operations.                                                 *)
(*                                                                         *)
(* An operation on a path fails when the path is not of the kind the       *)
(* operation needs; besides, any operation may fail for a reason of the    *)
(* environment (permissions, a removed file, an I/O error).  faults holds  *)
(* the failures of the second sort that have happened:                     *)
(*   <<"open", p>>   File::open(p) or read_dir(p) failed                   *)
(*   <<"type", p>>   DirEntry::file_type of the entry p failed             *)
(*   <<"entry", p>>  ReadDir delivered Err in place of the entry p         *)
(*   <<"write", p>>  writing the output line of p failed                   *)
(***************************************************************************)
\* Path::is_file
is_file(p) == p \in DOMAIN fs /\ fs[p] = "file"

\* the size of the scenario so far
Size ==
    Cardinality(DOMAIN fs) + (IF paths = <<>> THEN Len(dirs) ELSE Len(paths))
        + Cardinality(faults) + total

\* the environment may make the operation x fail now
MayFail(x) == x \in faults \/ Size < MaxSize

\* the outcomes read_dir(p) can have
ReadDirOutcomes(p) ==
    { ok \in BOOLEAN :
        /\ ok => p \in DOMAIN fs /\ fs[p] = "dir"
        /\ ~ok => ~(p \in DOMAIN fs /\ fs[p] = "dir") \/ MayFail(<<"open", p>>) }

Children(p) == { q \in DOMAIN fs : Len(q) = Len(p) + 1 /\ Parent(q) = p }

\* the orders in which a ReadDir may deliver the entries of a directory
Orders(S) ==
    { s \in SeqsUpTo(S, Cardinality(S)) :
        Len(s) = Cardinality(S) /\ { s[i] : i \in 1..Len(s) } = S }

file_name(p) == p[Len(p)]

\* str::ends_with
ends_with(name, ext) ==
    /\ Len(ext) <= Len(name)
    /\ SubSeq(name, Len(name) - Len(ext) + 1, Len(name)) = ext

\* has_ext with starts_with in place of ends_with
has_ext_prefix(entry, exts) ==
    \E ext \in exts :
        /\ Len(ext) <= Len(file_name(entry))
        /\ SubSeq(file_name(entry), 1, Len(ext)) = ext

\* has_ext that takes an empty list of suffixes to match every name
has_ext_empty_all(entry, exts) ==
    exts = {} \/ \E ext \in exts : ends_with(file_name(entry), ext)

has_ext(entry, exts) == \E ext \in exts : ends_with(file_name(entry), ext)

(***************************************************************************)
(* Items of the iterator.                                                  *)
(***************************************************************************)
Idle == [tag |-> "idle", path |-> <<>>, why |-> ""]
Pulling == [tag |-> "pulling", path |-> <<>>, why |-> ""]
End == [tag |-> "end", path |-> <<>>, why |-> ""]
Nothing == [tag |-> "none", path |-> <<>>, why |-> ""]
OkItem(p) == [tag |-> "ok", path |-> p, why |-> ""]
ErrItem(p, w) == [tag |-> "err", path |-> p, why |-> w]

(***************************************************************************)
(* Handles.                                                                *)
(*                                                                         *)
(* A File is open from File::open until the value is dropped, a ReadDir is *)
(* live from read_dir until the value is dropped.  handles counts the ones *)
(* open now, and the most that were open at one instant so far: an action  *)
(* that opens one handle and drops another within its step passes through  *)
(* the instant between the two.                                            *)
(***************************************************************************)
NoHandles == [files |-> 0, cursors |-> 0, mostFiles |-> 0, mostCursors |-> 0]

Max(a, b) == IF a >= b THEN a ELSE b

\* File::open returned a File
OpenFile(h) == [h EXCEPT !.files = @ + 1, !.mostFiles = Max(@, h.files + 1)]

\* a File that is never dropped
CloseFileKeep(h) == h

\* a File is dropped: write_info consumes it in .lines().count()
CloseFile(h) == [h EXCEPT !.files = @ - 1]

\* read_dir returned a ReadDir
OpenCursor(h) == [h EXCEPT !.cursors = @ + 1, !.mostCursors = Max(@, h.cursors + 1)]

\* a ReadDir is dropped
DropCursor(h) == [h EXCEPT !.cursors = @ - 1]

\* what visits records when read_dir has opened d with rest left pending
Visit(d, rest) == [dir |-> d, rest |-> rest, n |-> Len(items)]

(***************************************************************************)
(* FileTraverser                                                           *)
(***************************************************************************)
Last(s) == s[Len(s)]
Front(s) == SubSeq(s, 1, Len(s) - 1)

\* map_entry that drops a directory entry instead of pushing it
map_entry_no_push(entry, f) ==
    IF f = "entry"
    THEN [item |-> ErrItem(entry, "entry"), sub_dirs |-> sub_dirs, tried |-> tried]
    ELSE IF f = "type"
    THEN [item |-> ErrItem(entry, "type"), sub_dirs |-> sub_dirs, tried |-> tried]
    ELSE IF fs[entry] = "file"
    THEN IF ~extensions.some \/ \E ext \in extensions.exts : ends_with(file_name(entry), ext)
         THEN [item |-> IF f = "open" THEN ErrItem(entry, "open") ELSE OkItem(entry),
               sub_dirs |-> sub_dirs, tried |-> Append(tried, entry)]
         ELSE [item |-> Nothing, sub_dirs |-> sub_dirs, tried |-> tried]
    ELSE [item |-> Nothing, sub_dirs |-> sub_dirs, tried |-> tried]

\* map_entry that pushes every entry that is no regular file
map_entry_push_other(entry, f) ==
    IF f = "entry"
    THEN [item |-> ErrItem(entry, "entry"), sub_dirs |-> sub_dirs, tried |-> tried]
    ELSE IF f = "type"
    THEN [item |-> ErrItem(entry, "type"), sub_dirs |-> sub_dirs, tried |-> tried]
    ELSE IF fs[entry] = "file"
    THEN IF ~extensions.some \/ has_ext(entry, extensions.exts)
         THEN [item |-> IF f = "open" THEN ErrItem(entry, "open") ELSE OkItem(entry),
               sub_dirs |-> sub_dirs, tried |-> Append(tried, entry)]
         ELSE [item |-> Nothing, sub_dirs |-> sub_dirs, tried |-> tried]
    ELSE [item |-> Nothing, sub_dirs |-> Append(sub_dirs, entry), tried |-> tried]

\* map_entry that pushes a directory entry twice
map_entry_push_twice(entry, f) ==
    IF f = "entry"
    THEN [item |-> ErrItem(entry, "entry"), sub_dirs |-> sub_dirs, tried |-> tried]
    ELSE IF f = "type"
    THEN [item |-> ErrItem(entry, "type"), sub_dirs |-> sub_dirs, tried |-> tried]
    ELSE IF fs[entry] = "file"
    THEN IF ~extensions.some \/ has_ext(entry, extensions.exts)
         THEN [item |-> IF f = "open" THEN ErrItem(entry, "open") ELSE OkItem(entry),
               sub_dirs |-> sub_dirs, tried |-> Append(tried, entry)]
         ELSE [item |-> Nothing, sub_dirs |-> sub_dirs, tried |-> tried]
    ELSE IF fs[entry] = "dir"
    THEN [item |-> Nothing, sub_dirs |-> Append(Append(sub_dirs, entry), entry),
          tried |-> tried]
    ELSE [item |-> Nothing, sub_dirs |-> sub_dirs, tried |-> tried]

\* FileTraverser::map_entry for the entry the cursor delivered, when the
\* environment fails the operation f ("" for none): the item it returns
\* (Nothing for Ok(None)), the pending list and the open attempts after it
map_entry(entry, f) ==
    IF f = "entry"
    THEN [item |-> ErrItem(entry, "entry"), sub_dirs |-> sub_dirs, tried |-> tried]
    ELSE IF f = "type"
    THEN [item |-> ErrItem(entry, "type"), sub_dirs |-> sub_dirs, tried |-> tried]
    ELSE IF fs[entry] = "file"
    THEN IF ~extensions.some \/ has_ext(entry, extensions.exts)
         THEN [item |-> IF f = "open" THEN ErrItem(entry, "open") ELSE OkItem(entry),
               sub_dirs |-> sub_dirs, tried |-> Append(tried, entry)]
         ELSE [item |-> Nothing, sub_dirs |-> sub_dirs, tried |-> tried]
    ELSE IF fs[entry] = "dir"
    THEN [item |-> Nothing, sub_dirs |-> Append(sub_dirs, entry), tried |-> tried]
    ELSE [item |-> Nothing, sub_dirs |-> sub_dirs, tried |-> tried]

Reverse(s) == [i \in 1..Len(s) |-> s[Len(s) + 1 - i]]

\* traverse that keeps the other roots in the opposite order
TraverseReversed ==
    /\ pc = "construct"
    /\ IF dirs = <<>>
       THEN /\ pc' = "panic"
            /\ UNCHANGED << faults, sub_dirs, traverser, opened, err >>
       ELSE \E ok \in ReadDirOutcomes(dirs[1]) :
              IF ~ok
              THEN /\ pc' = "error"
                   /\ err' = ErrItem(dirs[1], "open")
                   /\ faults' = IF dirs[1] \in DOMAIN fs /\ fs[dirs[1]] = "dir"
                                THEN faults \cup { <<"open", dirs[1]>> } ELSE faults
                   /\ UNCHANGED << sub_dirs, traverser, opened >>
              ELSE /\ \E o \in Orders(Children(dirs[1])) : traverser' = o
                   /\ sub_dirs' = Reverse(Tail(dirs))
                   /\ opened' = Append(opened, dirs[1])
                   /\ pc' = "loop"
                   /\ UNCHANGED << faults, err >>
    /\ item' = IF pc' = "loop" THEN Pulling ELSE item
    /\ visits' = IF pc' = "loop" THEN << Visit(dirs[1], sub_dirs') >> ELSE visits
    /\ handles' = IF pc' = "loop" THEN OpenCursor(handles) ELSE handles
    /\ UNCHANGED << fs, extensions, paths, files, dirs, fi, total, out,
                    tried, items, readErr, stream, loc >>

\* traverse with dirs.to_vec() in place of dirs[1..].to_vec()
TraverseKeepFirst ==
    /\ pc = "construct"
    /\ IF dirs = <<>>
       THEN /\ pc' = "panic"
            /\ UNCHANGED << faults, sub_dirs, traverser, opened, err >>
       ELSE \E ok \in ReadDirOutcomes(dirs[1]) :
              IF ~ok
              THEN /\ pc' = "error"
                   /\ err' = ErrItem(dirs[1], "open")
                   /\ faults' = IF dirs[1] \in DOMAIN fs /\ fs[dirs[1]] = "dir"
                                THEN faults \cup { <<"open", dirs[1]>> } ELSE faults
                   /\ UNCHANGED << sub_dirs, traverser, opened >>
              ELSE /\ \E o \in Orders(Children(dirs[1])) : traverser' = o
                   /\ sub_dirs' = dirs
                   /\ opened' = Append(opened, dirs[1])
                   /\ pc' = "loop"
                   /\ UNCHANGED << faults, err >>
    /\ item' = IF pc' = "loop" THEN Pulling ELSE item
    /\ visits' = IF pc' = "loop" THEN << Visit(dirs[1], sub_dirs') >> ELSE visits
    /\ handles' = IF pc' = "loop" THEN OpenCursor(handles) ELSE handles
    /\ UNCHANGED << fs, extensions, paths, files, dirs, fi, total, out,
                    tried, items, readErr, stream, loc >>

\* FileTraverser::traverse(&dirs, extensions), and the caller's first call of
\* next when it returns a traverser
Traverse ==
    /\ pc = "construct"
    /\ IF dirs = <<>>
       THEN /\ pc' = "panic"
            /\ UNCHANGED << faults, sub_dirs, traverser, opened, err >>
       ELSE \E ok \in ReadDirOutcomes(dirs[1]) :
              IF ~ok
              THEN /\ pc' = "error"
                   /\ err' = ErrItem(dirs[1], "open")
                   /\ faults' = IF dirs[1] \in DOMAIN fs /\ fs[dirs[1]] = "dir"
                                THEN faults \cup { <<"open", dirs[1]>> } ELSE faults
                   /\ UNCHANGED << sub_dirs, traverser, opened >>
              ELSE /\ \E o \in Orders(Children(dirs[1])) : traverser' = o
                   /\ sub_dirs' = Tail(dirs)
                   /\ opened' = Append(opened, dirs[1])
                   /\ pc' = "loop"
                   /\ UNCHANGED << faults, err >>
    /\ item' = IF pc' = "loop" THEN Pulling ELSE item
    /\ visits' = IF pc' = "loop" THEN << Visit(dirs[1], sub_dirs') >> ELSE visits
    /\ handles' = IF pc' = "loop" THEN OpenCursor(handles) ELSE handles
    /\ UNCHANGED << fs, extensions, paths, files, dirs, fi, total, out,
                    tried, items, readErr, stream, loc >>

\* next, one turn of the loop: the cursor delivers an entry
NextEntry ==
    /\ pc = "loop"
    /\ item.tag = "pulling"
    /\ traverser # <<>>
    /\ \E f \in {"", "entry", "type", "open"} :
         LET r == map_entry(Head(traverser), f)
         IN  /\ f # "" => r.item.tag = "err" /\ MayFail(<<f, Head(traverser)>>)
             /\ traverser' = Tail(traverser)
             /\ sub_dirs' = r.sub_dirs
             /\ tried' = r.tried
             /\ item' = IF r.item.tag = "none" THEN Pulling ELSE r.item
             /\ items' = IF r.item.tag = "none" THEN items ELSE Append(items, r.item)
             /\ faults' = IF f = "" THEN faults ELSE faults \cup { <<f, Head(traverser)>> }
             /\ handles' = IF r.item.tag = "ok" THEN OpenFile(handles) ELSE handles
    /\ UNCHANGED << fs, extensions, paths, pc, files, dirs, fi, total, out,
                    opened, err, readErr, stream, loc, visits >>

\* NextDir that takes the pending directory that has waited longest
NextDirFifo ==
    /\ pc = "loop"
    /\ item.tag = "pulling"
    /\ traverser = <<>>
    /\ IF sub_dirs = <<>>
       THEN /\ item' = End
            /\ UNCHANGED << faults, sub_dirs, traverser, opened, items >>
       ELSE /\ sub_dirs' = Tail(sub_dirs)
            /\ \E ok \in ReadDirOutcomes(Head(sub_dirs)) :
                 IF ~ok
                 THEN /\ item' = ErrItem(Head(sub_dirs), "open")
                      /\ items' = Append(items, ErrItem(Head(sub_dirs), "open"))
                      /\ faults' = IF Head(sub_dirs) \in DOMAIN fs /\ fs[Head(sub_dirs)] = "dir"
                                   THEN faults \cup { <<"open", Head(sub_dirs)>> } ELSE faults
                      /\ UNCHANGED << traverser, opened >>
                 ELSE /\ \E o \in Orders(Children(Head(sub_dirs))) : traverser' = o
                      /\ opened' = Append(opened, Head(sub_dirs))
                      /\ item' = Pulling
                      /\ UNCHANGED << faults, items >>
    /\ visits' = IF opened' # opened
                 THEN Append(visits, Visit(Head(sub_dirs), sub_dirs')) ELSE visits
    /\ handles' = IF opened' # opened THEN DropCursor(OpenCursor(handles)) ELSE handles
    /\ UNCHANGED << fs, extensions, paths, pc, files, dirs, fi, total, out,
                    tried, err, readErr, stream, loc >>

\* NextDir that goes on to the next pending directory when one cannot be opened
NextDirSkip ==
    /\ pc = "loop"
    /\ item.tag = "pulling"
    /\ traverser = <<>>
    /\ IF sub_dirs = <<>>
       THEN /\ item' = End
            /\ UNCHANGED << faults, sub_dirs, traverser, opened, items >>
       ELSE /\ sub_dirs' = Front(sub_dirs)
            /\ \E ok \in ReadDirOutcomes(Last(sub_dirs)) :
                 IF ~ok
                 THEN /\ item' = Pulling
                      /\ faults' = IF Last(sub_dirs) \in DOMAIN fs /\ fs[Last(sub_dirs)] = "dir"
                                   THEN faults \cup { <<"open", Last(sub_dirs)>> } ELSE faults
                      /\ UNCHANGED << traverser, opened, items >>
                 ELSE /\ \E o \in Orders(Children(Last(sub_dirs))) : traverser' = o
                      /\ opened' = Append(opened, Last(sub_dirs))
                      /\ item' = Pulling
                      /\ UNCHANGED << faults, items >>
    /\ visits' = IF opened' # opened
                 THEN Append(visits, Visit(Last(sub_dirs), sub_dirs')) ELSE visits
    /\ handles' = IF opened' # opened THEN DropCursor(OpenCursor(handles)) ELSE handles
    /\ UNCHANGED << fs, extensions, paths, pc, files, dirs, fi, total, out,
                    tried, err, readErr, stream, loc >>

\* NextDir that ends the sequence when a pending directory cannot be opened
NextDirStop ==
    /\ pc = "loop"
    /\ item.tag = "pulling"
    /\ traverser = <<>>
    /\ IF sub_dirs = <<>>
       THEN /\ item' = End
            /\ UNCHANGED << faults, sub_dirs, traverser, opened, items >>
       ELSE /\ sub_dirs' = Front(sub_dirs)
            /\ \E ok \in ReadDirOutcomes(Last(sub_dirs)) :
                 IF ~ok
                 THEN /\ item' = End
                      /\ faults' = IF Last(sub_dirs) \in DOMAIN fs /\ fs[Last(sub_dirs)] = "dir"
                                   THEN faults \cup { <<"open", Last(sub_dirs)>> } ELSE faults
                      /\ UNCHANGED << traverser, opened, items >>
                 ELSE /\ \E o \in Orders(Children(Last(sub_dirs))) : traverser' = o
                      /\ opened' = Append(opened, Last(sub_dirs))
                      /\ item' = Pulling
                      /\ UNCHANGED << faults, items >>
    /\ visits' = IF opened' # opened
                 THEN Append(visits, Visit(Last(sub_dirs), sub_dirs')) ELSE visits
    /\ handles' = IF opened' # opened THEN DropCursor(OpenCursor(handles)) ELSE handles
    /\ UNCHANGED << fs, extensions, paths, pc, files, dirs, fi, total, out,
                    tried, err, readErr, stream, loc >>

\* NextDir that signals the end with one directory still pending
NextDirEarlyEnd ==
    /\ pc = "loop"
    /\ item.tag = "pulling"
    /\ traverser = <<>>
    /\ IF Len(sub_dirs) <= 1
       THEN /\ item' = End
            /\ UNCHANGED << faults, sub_dirs, traverser, opened, items >>
       ELSE /\ sub_dirs' = Front(sub_dirs)
            /\ \E ok \in ReadDirOutcomes(Last(sub_dirs)) :
                 IF ~ok
                 THEN /\ item' = ErrItem(Last(sub_dirs), "open")
                      /\ items' = Append(items, ErrItem(Last(sub_dirs), "open"))
                      /\ faults' = IF Last(sub_dirs) \in DOMAIN fs /\ fs[Last(sub_dirs)] = "dir"
                                   THEN faults \cup { <<"open", Last(sub_dirs)>> } ELSE faults
                      /\ UNCHANGED << traverser, opened >>
                 ELSE /\ \E o \in Orders(Children(Last(sub_dirs))) : traverser' = o
                      /\ opened' = Append(opened, Last(sub_dirs))
                      /\ item' = Pulling
                      /\ UNCHANGED << faults, items >>
    /\ visits' = IF opened' # opened
                 THEN Append(visits, Visit(Last(sub_dirs), sub_dirs')) ELSE visits
    /\ handles' = IF opened' # opened THEN DropCursor(OpenCursor(handles)) ELSE handles
    /\ UNCHANGED << fs, extensions, paths, pc, files, dirs, fi, total, out,
                    tried, err, readErr, stream, loc >>

\* next, one turn of the loop: the cursor is exhausted
NextDir ==
    /\ pc = "loop"
    /\ item.tag = "pulling"
    /\ traverser = <<>>
    /\ IF sub_dirs = <<>>
       THEN /\ item' = End
            /\ UNCHANGED << faults, sub_dirs, traverser, opened, items >>
       ELSE /\ sub_dirs' = Front(sub_dirs)
            /\ \E ok \in ReadDirOutcomes(Last(sub_dirs)) :
                 IF ~ok
                 THEN /\ item' = ErrItem(Last(sub_dirs), "open")
                      /\ items' = Append(items, ErrItem(Last(sub_dirs), "open"))
                      /\ faults' = IF Last(sub_dirs) \in DOMAIN fs /\ fs[Last(sub_dirs)] = "dir"
                                   THEN faults \cup { <<"open", Last(sub_dirs)>> } ELSE faults
                      /\ UNCHANGED << traverser, opened >>
                 ELSE /\ \E o \in Orders(Children(Last(sub_dirs))) : traverser' = o
                      /\ opened' = Append(opened, Last(sub_dirs))
                      /\ item' = Pulling
                      /\ UNCHANGED << faults, items >>
    /\ visits' = IF opened' # opened
                 THEN Append(visits, Visit(Last(sub_dirs), sub_dirs')) ELSE visits
    /\ handles' = IF opened' # opened THEN DropCursor(OpenCursor(handles)) ELSE handles
    /\ UNCHANGED << fs, extensions, paths, pc, files, dirs, fi, total, out,
                    tried, err, readErr, stream, loc >>

\* a caller that takes whatever item the pull returned and calls next again
Take ==
    /\ pc = "loop"
    /\ item.tag \in {"ok", "err", "end"}
    /\ item' = Pulling
    /\ handles' = IF item.tag = "ok" THEN CloseFile(handles) ELSE handles
    /\ UNCHANGED << fs, faults, extensions, paths, pc, files, dirs, fi, total, out,
                    sub_dirs, traverser, opened, tried, items, err, readErr,
                    stream, loc, visits >>

\* the lists of roots a caller passes: main passes the paths that are not files
RootLists(f) ==
    SeqsUpTo({ p \in DOMAIN f : f[p] # "file" } \cup {Missing},
             MaxSize - Cardinality(DOMAIN f))

InitT ==
    /\ fs \in FileSystems
    /\ faults = {}
    /\ extensions \in Filters
    /\ dirs \in RootLists(fs)
    /\ paths = <<>>
    /\ pc = "construct"
    /\ files = <<>>
    /\ fi = 1
    /\ total = 0
    /\ out = <<>>
    /\ sub_dirs = <<>>
    /\ traverser = <<>>
    /\ item = Idle
    /\ opened = <<>>
    /\ tried = <<>>
    /\ items = <<>>
    /\ err = Nothing
    /\ readErr = FALSE
    /\ stream = <<>>
    /\ loc = 0
    /\ visits = <<>>
    /\ handles = NoHandles

NextT == Traverse \/ NextEntry \/ NextDir \/ Take

\* the traverser alone, pulled by a caller that never stops
SpecT == InitT /\ [][NextT]_vars

\* the traverser on the scenarios of at most MaxLive nodes and roots
InitF == InitT /\ Cardinality(DOMAIN fs) + Len(dirs) <= MaxLive

\* the traverser when the caller and the loop of next keep taking their steps
SpecTFair == InitF /\ [][NextT]_vars /\ WF_vars(NextT)

(***************************************************************************)
(* main and write_info                                                     *)
(***************************************************************************)
\* the streams the file that is read now may deliver: as many read events as
\* the scenario has room for
FileStreams == SeqsUpTo(Events, MaxSize - Size)

FileLine(p, n) == [line |-> "file", path |-> p, n |-> n]
TotalLine(n) == [line |-> "total", path |-> <<>>, n |-> n]

\* write_info with *total = loc in place of *total += loc
write_info_overwrite(p, s, w) ==
    [total |-> LinesCount(s),
     out |-> IF w THEN Append(out, FileLine(p, LinesCount(s))) ELSE out,
     ok |-> w]

\* write_info that puts the line before the lines written so far
write_info_front(p, s, w) ==
    [total |-> total + LinesCount(s),
     out |-> IF w THEN << FileLine(p, LinesCount(s)) >> \o out ELSE out,
     ok |-> w]

\* write_info(out, file, path, total) for a file whose reads deliver s, when
\* the write of the line succeeds (w) or fails: the total and the output after
\* it, and whether it returns Ok
write_info(p, s, w) ==
    [total |-> total + LinesCount(s),
     out |-> IF w THEN Append(out, FileLine(p, LinesCount(s))) ELSE out,
     ok |-> w]

\* a partition that puts the extension filter on the paths given directly
PartitionFiltered ==
    /\ pc = "start"
    /\ files' = SelectSeq(paths, LAMBDA p : is_file(p) /\
                    (~extensions.some \/ has_ext(p, extensions.exts)))
    /\ dirs' = SelectSeq(paths, LAMBDA p : ~is_file(p))
    /\ pc' = "files"
    /\ UNCHANGED << fs, faults, extensions, paths, fi, total, out, sub_dirs,
                    traverser, item, opened, tried, items, err, readErr,
                    stream, loc, visits, handles >>

\* let (files, dirs) = args.paths.into_iter().partition(|p| p.is_file())
Partition ==
    /\ pc = "start"
    /\ files' = SelectSeq(paths, is_file)
    /\ dirs' = SelectSeq(paths, LAMBDA p : ~is_file(p))
    /\ pc' = "files"
    /\ UNCHANGED << fs, faults, extensions, paths, fi, total, out, sub_dirs,
                    traverser, item, opened, tried, items, err, readErr,
                    stream, loc, visits, handles >>

\* for file_path in files: one turn
DirectFile ==
    /\ pc = "files"
    /\ fi <= Len(files)
    /\ \E f \in {"", "open", "write"} : \E s \in FileStreams :
         LET r == write_info(files[fi], s, f # "write")
         IN  /\ f # "" => MayFail(<<f, files[fi]>>)
             /\ faults' = IF f = "" THEN faults ELSE faults \cup { <<f, files[fi]>> }
             /\ IF f = "open"
                THEN /\ pc' = "error"
                     /\ err' = ErrItem(files[fi], "open")
                     /\ UNCHANGED << fi, total, out, readErr, handles >>
                ELSE /\ total' = r.total
                     /\ handles' = CloseFile(OpenFile(handles))
                     /\ out' = r.out
                     /\ readErr' = HasReadErr(s)
                     /\ IF r.ok
                        THEN /\ fi' = fi + 1
                             /\ UNCHANGED << pc, err >>
                        ELSE /\ pc' = "error"
                             /\ err' = ErrItem(files[fi], "write")
                             /\ UNCHANGED fi
    /\ UNCHANGED << fs, extensions, paths, files, dirs, sub_dirs, traverser, item,
                    opened, tried, items, stream, loc, visits >>

\* main without the test of dirs: it constructs the traverser in every run
FilesDoneAlways ==
    /\ pc = "files"
    /\ fi > Len(files)
    /\ pc' = "construct"
    /\ UNCHANGED << fs, faults, extensions, paths, files, dirs, fi, total, out,
                    sub_dirs, traverser, item, opened, tried, items, err, readErr,
                    stream, loc, visits, handles >>

\* if !dirs.is_empty()
FilesDone ==
    /\ pc = "files"
    /\ fi > Len(files)
    /\ pc' = IF dirs # <<>> THEN "construct" ELSE "summary"
    /\ UNCHANGED << fs, faults, extensions, paths, files, dirs, fi, total, out,
                    sub_dirs, traverser, item, opened, tried, items, err, readErr,
                    stream, loc, visits, handles >>

\* for file_info in traverser: the body, for an Ok item
ForBody ==
    /\ pc = "loop"
    /\ item.tag = "ok"
    /\ \E w \in BOOLEAN : \E s \in FileStreams :
         LET r == write_info(item.path, s, w)
         IN  /\ ~w => MayFail(<<"write", item.path>>)
             /\ faults' = IF w THEN faults ELSE faults \cup { <<"write", item.path>> }
             /\ total' = r.total
             /\ out' = r.out
             /\ readErr' = HasReadErr(s)
             /\ IF r.ok
                THEN /\ item' = Pulling
                     /\ handles' = CloseFile(handles)
                     /\ UNCHANGED << pc, err >>
                ELSE /\ pc' = "error"
                     /\ err' = ErrItem(item.path, "write")
                     /\ handles' = DropCursor(CloseFile(handles))
                     /\ UNCHANGED item
    /\ UNCHANGED << fs, extensions, paths, files, dirs, fi, sub_dirs, traverser,
                    opened, tried, items, stream, loc, visits >>

\* ForErr that drops the Err item and pulls again
ForErrSkip ==
    /\ pc = "loop"
    /\ item.tag = "err"
    /\ item' = Pulling
    /\ handles' = handles
    /\ UNCHANGED << fs, faults, extensions, paths, pc, files, dirs, fi, total, out,
                    sub_dirs, traverser, opened, tried, items, err, readErr,
                    stream, loc, visits >>

\* let file_info = file_info?; for an Err item
ForErr ==
    /\ pc = "loop"
    /\ item.tag = "err"
    /\ pc' = "error"
    /\ err' = item
    /\ handles' = DropCursor(handles)
    /\ UNCHANGED << fs, faults, extensions, paths, files, dirs, fi, total, out,
                    sub_dirs, traverser, item, opened, tried, items, readErr,
                    stream, loc, visits >>

\* the end of the for loop: next returned None
ForEnd ==
    /\ pc = "loop"
    /\ item.tag = "end"
    /\ pc' = "summary"
    /\ handles' = DropCursor(handles)
    /\ UNCHANGED << fs, faults, extensions, paths, files, dirs, fi, total, out,
                    sub_dirs, traverser, item, opened, tried, items, err, readErr,
                    stream, loc, visits >>

\* writeln!(handle, "Total: {}. Completed in {} ms.", total, elapsed)
Summary ==
    /\ pc = "summary"
    /\ \E w \in BOOLEAN :
         /\ ~w => MayFail(<<"write", <<>>>>)
         /\ faults' = IF w THEN faults ELSE faults \cup { <<"write", <<>>>> }
         /\ out' = IF w THEN Append(out, TotalLine(total)) ELSE out
         /\ pc' = IF w THEN "done" ELSE "error"
         /\ err' = IF w THEN err ELSE ErrItem(<<>>, "write")
    /\ UNCHANGED << fs, extensions, paths, files, dirs, fi, total, sub_dirs,
                    traverser, item, opened, tried, items, readErr, stream, loc,
                    visits, handles >>

\* the argument lists: clap gives at least one path (the default is "./")
ArgLists(f) ==
    SeqsUpTo(DOMAIN f \cup {Missing}, MaxSize - Cardinality(DOMAIN f)) \ { <<>> }

Init ==
    /\ fs \in FileSystems
    /\ faults = {}
    /\ extensions \in Filters
    /\ paths \in ArgLists(fs)
    /\ dirs = <<>>
    /\ pc = "start"
    /\ files = <<>>
    /\ fi = 1
    /\ total = 0
    /\ out = <<>>
    /\ sub_dirs = <<>>
    /\ traverser = <<>>
    /\ item = Idle
    /\ opened = <<>>
    /\ tried = <<>>
    /\ items = <<>>
    /\ err = Nothing
    /\ readErr = FALSE
    /\ stream = <<>>
    /\ loc = 0
    /\ visits = <<>>
    /\ handles = NoHandles

Next ==
    \/ Partition
    \/ DirectFile
    \/ FilesDone
    \/ Traverse
    \/ NextEntry
    \/ NextDir
    \/ ForBody
    \/ ForErr
    \/ ForEnd
    \/ Summary

\* a run of the program
Spec == Init /\ [][Next]_vars

(***************************************************************************)
(* The line counter alone, on every stream.                                *)
(***************************************************************************)
\* let loc = BufReader::new(file).lines().count()
CountLines ==
    /\ pc = "count"
    /\ loc' = LinesCount(stream)
    /\ pc' = "counted"
    /\ UNCHANGED << fs, faults, extensions, paths, files, dirs, fi, total, out,
                    sub_dirs, traverser, item, opened, tried, items, err, readErr,
                    stream, visits, handles >>

InitL ==
    /\ fs = <<>>
    /\ faults = {}
    /\ extensions = [some |-> FALSE, exts |-> {}]
    /\ paths = <<>>
    /\ dirs = <<>>
    /\ pc = "count"
    /\ files = <<>>
    /\ fi = 1
    /\ total = 0
    /\ out = <<>>
    /\ sub_dirs = <<>>
    /\ traverser = <<>>
    /\ item = Idle
    /\ opened = <<>>
    /\ tried = <<>>
    /\ items = <<>>
    /\ err = Nothing
    /\ readErr = FALSE
    /\ stream \in Streams
    /\ loc = 0
    /\ visits = <<>>
    /\ handles = NoHandles

NextL == CountLines

SpecL == InitL /\ [][NextL]_vars

(***************************************************************************)
(* Properties                                                              *)
(***************************************************************************)
\* p lies under the directory r, at any depth
Under(p, r) == Len(p) > Len(r) /\ SubSeq(p, 1, Len(r)) = r

Roots == { dirs[i] : i \in 1..Len(dirs) }

\* the regular files at any depth under the roots
FilesUnderRoots ==
    { p \in DOMAIN fs : fs[p] = "file" /\ \E r \in Roots : Under(p, r) }

\* the directories reachable from the roots: the roots that are directories
\* and the directories under them
DirsReachable ==
    { p \in DOMAIN fs : fs[p] = "dir" /\ \E r \in Roots : p = r \/ Under(p, r) }

\* the number of times x occurs in the sequence s
Count(x, s) == Cardinality({ i \in 1..Len(s) : s[i] = x })

\* the paths of the files the pulls yielded, in order
Yielded ==
    LET ok == SelectSeq(items, LAMBDA it : it.tag = "ok")
    IN  [i \in 1..Len(ok) |-> ok[i].path]

ErrItems == { items[i] : i \in { k \in 1..Len(items) : items[k].tag = "err" } }

\* the roots are distinct and none lies inside another
RootsApart ==
    \A i, j \in 1..Len(dirs) :
        i # j => dirs[i] # dirs[j] /\ ~Under(dirs[i], dirs[j])

\* the traverser has signalled the end
Ended == pc = "loop" /\ item = End

\* C1 as stated: with no extension filter and every open succeeding, when the
\* traverser signals the end every regular file under distinct, unnested
\* roots has been yielded exactly once.
C1_AsStated ==
    (/\ Ended
     /\ ~extensions.some
     /\ RootsApart
     /\ \A e \in ErrItems : e.why # "open")
    => \A p \in FilesUnderRoots : Count(p, Yielded) = 1

\* C1, amended: with no extension filter and every open, every read of a
\* directory entry and every file-type query succeeding, when the traverser
\* signals the end every regular file under distinct, unnested roots has been
\* yielded exactly once.
C1_EveryFileOnce ==
    (/\ Ended
     /\ ~extensions.some
     /\ RootsApart
     /\ ErrItems = {})
    => \A p \in FilesUnderRoots : Count(p, Yielded) = 1

\* a traversal without filter and without failure has ended after yielding two
\* files, one of them in a directory below the root
C1_Witness ==
    /\ Ended
    /\ ~extensions.some
    /\ RootsApart
    /\ ErrItems = {}
    /\ Len(Yielded) = 2
    /\ \E p \in FilesUnderRoots : \E r \in Roots : Under(p, r) /\ Len(p) = Len(r) + 2

\* ext is a suffix of name
Suffix(name, ext) == \E k \in 0..Len(name) : SubSeq(name, k + 1, Len(name)) = ext

\* the file name of p ends with at least one suffix of the filter
Matches(p) == \E ext \in extensions.exts : Suffix(p[Len(p)], ext)

\* no operation failed on p or on a directory above p
Clean(p) == \A x \in faults : x[2] # p /\ ~Under(p, x[2])

\* C2: with a non-empty extension filter, every file the traverser opens or
\* yields is a regular file under the roots whose name ends with a suffix of
\* the filter, and when the traverser signals the end every such file has been
\* yielded, unless an operation failed on it or on a directory above it
\* (exactly once when nothing failed and the roots are distinct and unnested).
C2_FilterExact ==
    (extensions.some /\ extensions.exts # {})
    => /\ \A i \in 1..Len(tried) : tried[i] \in FilesUnderRoots /\ Matches(tried[i])
       /\ \A i \in 1..Len(Yielded) : Count(Yielded[i], tried) >= 1
       /\ Ended => \A p \in FilesUnderRoots :
                     Matches(p) /\ Clean(p) => Count(p, Yielded) >= 1
       /\ Ended /\ RootsApart /\ ErrItems = {} =>
            \A p \in FilesUnderRoots : Count(p, Yielded) = IF Matches(p) THEN 1 ELSE 0

\* a filtered traversal has ended: it yielded a matching file and never opened
\* a regular file under the roots that does not match
C2_Witness ==
    /\ Ended
    /\ extensions.some
    /\ extensions.exts # {}
    /\ \E p \in FilesUnderRoots : Matches(p) /\ Clean(p) /\ Count(p, Yielded) = 1
    /\ \E q \in FilesUnderRoots : ~Matches(q) /\ Count(q, tried) = 0

\* C3 as stated: for every list of roots, no directory is opened twice and no
\* file is yielded twice, and when the traverser signals the end without a
\* failure every directory reachable from the roots has been opened once.
C3_AsStated ==
    /\ \A i \in 1..Len(opened) : Count(opened[i], opened) = 1
    /\ \A i \in 1..Len(Yielded) : Count(Yielded[i], Yielded) = 1
    /\ Ended /\ ErrItems = {} => \A d \in DirsReachable : Count(d, opened) = 1

RECURSIVE SumN(_)
SumN(s) == IF s = <<>> THEN 0 ELSE Head(s).n + SumN(Tail(s))

\* the per-file lines and the summary lines written so far
FileLines == SelectSeq(out, LAMBDA l : l.line = "file")
TotalLines == SelectSeq(out, LAMBDA l : l.line = "total")

\* the run was given one directory, which is empty
EmptyDirRun ==
    /\ Len(paths) = 1
    /\ paths[1] \in DOMAIN fs
    /\ fs[paths[1]] = "dir"
    /\ \A q \in DOMAIN fs : ~Under(q, paths[1])

BadArg(p) == ~(p \in DOMAIN fs /\ fs[p] \in {"file", "dir"})

Args == { paths[i] : i \in 1..Len(paths) }

\* C5: a path given by the caller is never dropped silently.  A run that
\* completes has written a line for every path that is a file and has opened
\* every other path as a directory; a run given a path that is neither can only
\* stop in an error, without the summary line; and when nothing else fails,
\* the error is for such a path.
C5_NeverDropped ==
    /\ pc = "done" \/ TotalLines # <<>> =>
         \A p \in Args :
            \/ p \in DOMAIN fs /\ fs[p] = "file" /\ \E i \in 1..Len(out) : out[i] .path = p
            \/ p \in DOMAIN fs /\ fs[p] = "dir" /\ Count(p, opened) >= 1
    /\ (\E p \in Args : BadArg(p)) /\ pc # "error" =>
         pc # "done" /\ pc # "panic" /\ ENABLED Next
    /\ pc = "error" /\ faults = {} =>
         err.tag = "err" /\ err.why = "open" /\ err.path \in Args /\ BadArg(err.path)

\* a run has stopped in the error for its second path, which does not exist,
\* after it emitted a line for a file of the first
C5_Witness ==
    /\ pc = "error"
    /\ faults = {}
    /\ Len(paths) = 2
    /\ paths[2] = Missing
    /\ err = ErrItem(Missing, "open")
    /\ FileLines # <<>>
    /\ TotalLines = <<>>

\* an operation has failed: a direct file or a directory could not be opened,
\* the construction failed, a pull returned an Err item, or a write failed
FailureSeen == faults # {} \/ err # Nothing \/ ErrItems # {}

\* main is returning the error, or holds the Err item it is about to return
Aborting == pc = "error" \/ (pc = "loop" /\ item.tag = "err")

\* C6: the driver is fail-fast.  Once an operation has failed main is
\* aborting and has written no summary line; and from then on it writes no
\* line, adds nothing to the total, does not pull the traverser, which opens
\* nothing more, and ends in the error.
C6_FailFast ==
    /\ [](FailureSeen => Aborting /\ TotalLines = <<>>)
    /\ [][Aborting =>
            /\ pc' = "error"
            /\ out' = out
            /\ total' = total
            /\ item' = item
            /\ items' = items
            /\ opened' = opened
            /\ tried' = tried
            /\ sub_dirs' = sub_dirs
            /\ traverser' = traverser]_vars

\* main has aborted on a directory that could not be opened, after it had
\* written a line and with a directory still pending
C6_Witness ==
    /\ pc = "error"
    /\ err.tag = "err"
    /\ err.why = "open"
    /\ items # <<>>
    /\ Last(items) = err
    /\ FileLines # <<>>
    /\ sub_dirs # <<>>

\* C7 as stated: when a read of a file fails during the count, the run aborts
\* with no count added to the total and no line written for the file.
C7_AsStated == readErr => pc = "error" /\ total = SumN(FileLines)

\* the number of newline terminators of a stream
Newlines(s) == Cardinality({ i \in 1..Len(s) : s[i] = "n" })

\* C8: for every content (every stream of bytes, each read succeeding) with N
\* newlines the line counter returns N when the content is empty or ends with
\* a newline, and N + 1 otherwise.
C8_LineCount ==
    (pc = "counted" /\ \A i \in 1..Len(stream) : stream[i] \in Bytes)
    => loc = IF stream = <<>> \/ stream[Len(stream)] = "n"
             THEN Newlines(stream)
             ELSE Newlines(stream) + 1

\* a content with a newline and an unterminated tail has been counted
C8_Witness ==
    /\ pc = "counted"
    /\ \A i \in 1..Len(stream) : stream[i] \in Bytes
    /\ Newlines(stream) >= 1
    /\ stream[Len(stream)] # "n"
    /\ loc = Newlines(stream) + 1

IsDir(p) == p \in DOMAIN fs /\ fs[p] = "dir"

\* C9: the construction opens the first root only.  It either fails with the
\* error of the first root, leaving no traverser and no item, or returns a
\* traverser that has opened the first root and holds the other roots,
\* unopened, as its pending list; it fails whenever the first root is no
\* directory; and a later root that is no directory is reported as the Err
\* item of a pull.
C9_Construct ==
    /\ [][pc = "construct" /\ dirs # <<>> =>
            \/ /\ pc' = "error"
               /\ err' = ErrItem(dirs[1], "open")
               /\ opened' = <<>>
               /\ sub_dirs' = <<>>
               /\ traverser' = <<>>
               /\ item' = Idle
               /\ items' = <<>>
            \/ /\ pc' = "loop"
               /\ IsDir(dirs[1])
               /\ opened' = << dirs[1] >>
               /\ sub_dirs' = Tail(dirs)
               /\ { traverser'[i] : i \in 1..Len(traverser') } = Children(dirs[1])
               /\ items' = <<>>
               /\ tried' = <<>>]_vars
    /\ [](dirs # <<>> /\ ~IsDir(dirs[1]) => pc \in {"construct", "error"})
    /\ [](Ended => \A i \in 2..Len(dirs) :
                     ~IsDir(dirs[i]) => ErrItem(dirs[i], "open") \in ErrItems)

\* a traverser was constructed on its first root and a later pull returned
\* the error of the second root, which does not exist
C9_Witness ==
    /\ Ended
    /\ Len(dirs) >= 2
    /\ dirs[2] = Missing
    /\ opened # <<>>
    /\ opened[1] = dirs[1]
    /\ ErrItem(Missing, "open") \in ErrItems

Beneath(k) ==
    { j \in (k + 1)..Len(visits) :
        \A i \in (k + 1)..j : Len(visits[i].rest) >= Len(visits[k].rest) }

\* the visits after the k-th and after all of Beneath(k)
After(k) == ((k + 1)..Len(visits)) \ Beneath(k)

Least(S) == CHOOSE x \in S : \A y \in S : x <= y

\* the number of items returned before the first visit after those of Beneath(k)
BlockEnd(k) == IF After(k) = {} THEN Len(items) ELSE visits[Least(After(k))].n

\* the items returned from the k-th visit up to the end of those of Beneath(k)
Block(k) == (visits[k].n + 1)..BlockEnd(k)

\* the traverser has left the k-th directory and everything beneath it: the
\* pending list has fallen below what the k-th visit left, or the end has come
Left(k) ==
    \/ Ended
    \/ Len(sub_dirs) < Len(visits[k].rest)
    \/ After(k) # {}

\* the filter lets the file p through
Wanted(p) == ~extensions.some \/ Matches(p)

\* C11: the traversal is depth first by a stack.  Let the k-th visit open D and
\* leave P pending.  The visits that follow while the pending list holds P
\* open directories beneath D only and leave P as it is; every file returned
\* in that stretch lies beneath D; the first directory opened after the
\* stretch is the last of P that can be opened; and when the traverser has
\* left D, every directory and every wanted file beneath D on which nothing
\* failed has been opened, or returned, within the stretch: before any file
\* of a directory of P.
C11_StackDiscipline ==
    \A k \in 1..Len(visits) :
       LET D == visits[k].dir
           P == visits[k].rest
       IN  /\ D = opened[k]
           /\ \A j \in (k + 1)..Len(visits) : visits[k].n <= visits[j].n
           /\ \A j \in Beneath(k) :
                 /\ Under(visits[j].dir, D)
                 /\ SubSeq(visits[j].rest, 1, Len(P)) = P
           /\ \A i \in Block(k) :
                 items[i].tag = "ok" => Under(items[i].path, D)
           /\ After(k) # {} =>
                 LET m == Least(After(k))
                 IN  /\ visits[m].rest = SubSeq(P, 1, Len(visits[m].rest))
                     /\ visits[m].dir = P[Len(visits[m].rest) + 1]
                     /\ \A i \in (Len(visits[m].rest) + 2)..Len(P) : ~IsDir(P[i]) \/ <<"open", P[i]>> \in faults
           /\ Left(k) =>
                 /\ \A d \in DOMAIN fs :
                       fs[d] = "dir" /\ Under(d, D) /\ Clean(d)
                       => \E j \in Beneath(k) : visits[j].dir = d
                 /\ \A f \in DOMAIN fs :
                       fs[f] = "file" /\ Under(f, D) /\ Clean(f) /\ Wanted(f)
                       => \E i \in Block(k) : items[i] = OkItem(f)

\* a directory was opened with another left pending and returned a file, and
\* the pending one was opened after it
C11_Witness ==
    /\ Ended
    /\ \E k \in 2..Len(visits) :
         /\ visits[k].rest # <<>>
         /\ \E i \in Block(k) : items[i].tag = "ok"
         /\ After(k) # {}
         /\ visits[Least(After(k))].dir = Last(visits[k].rest)

\* the paths given by the caller that are regular files, in argument order
ArgFiles == SelectSeq(paths, LAMBDA p : p \in DOMAIN fs /\ fs[p] = "file")

\* C12: in a run given files and directories both are counted, and the filter
\* is put on the traversed files only.  The first per-file lines are those of
\* the regular files given directly, one each in argument order, whatever
\* their names; every later per-file line is that of a file the filter lets
\* through, lying under a given path that is no regular file; and a run that
\* completes has written the lines of all files given directly, has opened
\* every other given path, and has written a line for every file under them
\* that the filter lets through.
C12_DirectUnfiltered ==
    /\ \A i \in 1..Len(FileLines) :
          IF i <= Len(ArgFiles)
          THEN FileLines[i].path = ArgFiles[i]
          ELSE /\ Wanted(FileLines[i].path)
               /\ \E d \in Args : ~(d \in DOMAIN fs /\ fs[d] = "file") /\ Under(FileLines[i].path, d)
    /\ pc \in {"construct", "loop", "summary", "done"} => Len(FileLines) >= Len(ArgFiles)
    /\ pc = "done" =>
          /\ \A d \in Args : ~(d \in DOMAIN fs /\ fs[d] = "file") => Count(d, opened) >= 1
          /\ \A f \in DOMAIN fs :
                fs[f] = "file" /\ Wanted(f) /\ (\E d \in Args : Under(f, d))
                => \E i \in (Len(ArgFiles) + 1)..Len(FileLines) : FileLines[i].path = f

\* a run with a filter has completed: it wrote the line of a file given
\* directly whose name the filter does not let through, and then the line of
\* a file it found in a directory given with it
C12_Witness ==
    /\ pc = "done"
    /\ extensions.some
    /\ Len(ArgFiles) = 1
    /\ ~Matches(ArgFiles[1])
    /\ Len(FileLines) = 2
    /\ FileLines[1].path = ArgFiles[1]
    /\ \E d \in Args : Under(FileLines[2].path, d)

\* nothing has failed so far
NoError == faults = {} /\ err = Nothing /\ ErrItems = {}

\* the files processed so far: the direct files taken from the list, then the
\* files the traverser returned and the loop body has counted
Processed ==
    SubSeq(files, 1, fi - 1) \o
    (IF pc = "loop" /\ item.tag = "ok" THEN Front(Yielded) ELSE Yielded)

\* C13: in a run without errors the per-file lines written so far are those
\* of the files processed so far, one each, the direct files first in argument
\* order and then the traversed files in the order the traverser returned
\* them; the step that counts a file appends its line with its count, and no
\* other step writes a per-file line; the summary line is written once, by
\* the last step, after all of them.
C13_LinePerFile ==
    /\ [](NoError =>
            /\ Len(FileLines) = Len(Processed)
            /\ \A i \in 1..Len(FileLines) : FileLines[i].path = Processed[i]
            /\ fi <= Len(files) => Yielded = <<>>
            /\ TotalLines # <<>> => pc = "done"
            /\ pc = "done" =>
                  /\ out = Append(FileLines, TotalLine(total))
                  /\ Len(FileLines) = Len(files) + Len(Yielded)
                  /\ files = ArgFiles)
    /\ [][NoError' =>
            /\ (fi' # fi \/ (pc = "loop" /\ item.tag = "ok")) =>
                  \E p \in DOMAIN fs : out' = Append(out, FileLine(p, total' - total))
            /\ ~(fi' # fi \/ (pc = "loop" /\ item.tag = "ok")) =>
                  /\ total' = total
                  /\ out' = out \/ (pc = "summary" /\ out' = Append(out, TotalLine(total)))]_vars

\* a run without errors has completed with the line of a direct file, then
\* the line of a traversed file, then the summary line
C13_Witness ==
    /\ pc = "done"
    /\ NoError
    /\ Len(files) = 1
    /\ Len(Yielded) = 1
    /\ Len(out) = 3
    /\ out[1].path = files[1]
    /\ out[2].path = Yielded[1]
    /\ out[3].line = "total"

\* C14: a traverser that is pulled again and again returns the end: every
\* pull in progress comes to return an item, and the end is returned again
\* and again.  A turn of next returns the end exactly when the cursor is
\* exhausted and nothing is pending, and it changes nothing then; so once
\* the end is returned, every later pull returns the end and leaves the
\* traverser as it is.
C14_Terminates ==
    /\ (pc = "loop") ~> (item = End)
    /\ (pc = "loop" /\ item.tag = "pulling") ~> (item.tag \in {"ok", "err", "end"})
    /\ [][pc = "loop" /\ item.tag = "pulling" =>
            /\ item' = End <=> traverser = <<>> /\ sub_dirs = <<>>
            /\ item' = End =>
                  /\ traverser' = traverser
                  /\ sub_dirs' = sub_dirs
                  /\ opened' = opened
                  /\ tried' = tried
                  /\ items' = items
                  /\ faults' = faults]_vars
    /\ [][item = End =>
            /\ item' = Pulling
            /\ traverser' = <<>>
            /\ sub_dirs' = <<>>
            /\ opened' = opened]_vars

\* the end was returned after a directory beneath the root had been opened
\* and a file of it returned
C14_Witness ==
    /\ Ended
    /\ Len(opened) >= 2
    /\ Under(opened[Len(opened)], opened[1])
    /\ \E i \in 1..Len(Yielded) : Under(Yielded[i], opened[Len(opened)])
    /\ traverser = <<>>
    /\ sub_dirs = <<>>

\* C15 as stated: the number of pending directories never grows from one step
\* of the traverser to the next, and it is 0 when the traverser signals the end.
C15_AsStated ==
    /\ [][pc = "loop" => Len(sub_dirs') <= Len(sub_dirs)]_vars
    /\ [](Ended => sub_dirs = <<>>)

\* C15, amended: the number of pending directories changes by one at a time.
\* It grows by one exactly in the step that reads an entry that is a
\* directory, which is put on the end of the list; it shrinks by one exactly
\* in the step that finds the cursor exhausted and takes the last pending
\* directory; it is 0 when the traverser signals the end.
C15_PendingCount ==
    /\ [][pc = "loop" =>
            LET reads == item.tag = "pulling" /\ traverser # <<>>
                pops == item.tag = "pulling" /\ traverser = <<>> /\ sub_dirs # <<>>
            IN  /\ reads /\ fs[Head(traverser)] = "dir" /\ items' = items
                    => sub_dirs' = Append(sub_dirs, Head(traverser))
                /\ pops => sub_dirs' = Front(sub_dirs)
                /\ ~pops /\ ~(reads /\ fs[Head(traverser)] = "dir" /\ items' = items)
                    => sub_dirs' = sub_dirs]_vars
    /\ [](Ended => sub_dirs = <<>>)

\* two directories found under the one root are pending, where none was
\* pending after the construction
C15_Witness ==
    /\ pc = "loop"
    /\ Len(dirs) = 1
    /\ Len(sub_dirs) = 2
    /\ \A i \in 1..2 : Under(sub_dirs[i], dirs[1])

C17_EntryKinds ==
    [][pc = "loop" /\ item.tag = "pulling" /\ traverser # <<>> =>
        LET e == Head(traverser)
            failed == items' # items /\ item'.tag = "err" /\ item'.why \in {"entry", "type"}
        IN  /\ opened' = opened
            /\ traverser' = Tail(traverser)
            /\ fs[e] = "other" =>
                  /\ tried' = tried
                  /\ sub_dirs' = sub_dirs
                  /\ handles' = handles
                  /\ IF failed THEN item'.path = e
                               ELSE item' = Pulling /\ items' = items
            /\ fs[e] = "dir" =>
                  /\ tried' = tried
                  /\ handles' = handles
                  /\ IF failed THEN item'.path = e /\ sub_dirs' = sub_dirs
                               ELSE /\ item' = Pulling
                                    /\ items' = items
                                    /\ sub_dirs' = Append(sub_dirs, e)
            /\ item'.tag = "ok" =>
                  /\ fs[e] = "file"
                  /\ item' = OkItem(e)
                  /\ tried' = Append(tried, e)
                  /\ sub_dirs' = sub_dirs
            /\ tried' # tried => fs[e] = "file"]_vars

\* a traversal without failure has ended: it passed an entry that is neither
\* file nor directory without a trace, and opened a directory entry once and
\* returned a file of it
C17_Witness ==
    /\ Ended
    /\ faults = {}
    /\ Len(dirs) = 1
    /\ \E e \in DOMAIN fs :
         /\ fs[e] = "other"
         /\ Parent(e) = dirs[1]
         /\ Count(e, opened) = 0
         /\ Count(e, tried) = 0
    /\ \E d \in DOMAIN fs :
         /\ fs[d] = "dir"
         /\ Parent(d) = dirs[1]
         /\ Count(d, opened) = 1
         /\ \E i \in 1..Len(Yielded) : Parent(Yielded[i]) = d
    /\ items = [i \in 1..Len(Yielded) |-> OkItem(Yielded[i])]

\* every path given by the caller is a regular file
AllFiles == \A p \in Args : p \in DOMAIN fs /\ fs[p] = "file"

\* C18: main never constructs the traverser on an empty list.  The traverser
\* is constructed, and a directory opened, only in a run that was given a
\* path that is no regular file, with exactly those paths as roots; no run
\* panics; a run given regular files only never constructs it, goes on until
\* it has completed unless an operation fails, and completes with the summary
\* line after the lines of the files.
C18_NoEmptyConstruct ==
    /\ pc # "panic"
    /\ pc \in {"construct", "loop"} \/ opened # <<>> \/ items # <<>> =>
          /\ dirs # <<>>
          /\ dirs = SelectSeq(paths, LAMBDA p : ~(p \in DOMAIN fs /\ fs[p] = "file"))
          /\ ~AllFiles
    /\ AllFiles =>
          /\ handles.mostCursors = 0
          /\ visits = <<>>
          /\ pc \in {"start", "files", "summary", "done", "error"}
          /\ pc = "error" => faults # {}
          /\ pc \notin {"done", "error"} => ENABLED Next
          /\ pc = "done" =>
                /\ Len(out) = Len(paths) + 1
                /\ Last(out) = TotalLine(total)

\* a run given two regular files and nothing else has completed with their
\* lines and the summary line, and never had a traverser
C18_Witness ==
    /\ pc = "done"
    /\ AllFiles
    /\ Len(paths) = 2
    /\ Len(FileLines) = 2
    /\ Last(out).line = "total"
    /\ opened = <<>>
    /\ item = Idle

\* the filter is present and holds no suffix
EmptyFilter == extensions.some /\ extensions.exts = {}

\* C19: with a filter that is present and empty the traverser opens no file
\* and returns no file item; it still comes to signal the end, and by then it
\* has opened every directory reachable from the roots on which nothing
\* failed.  With no filter at all a traversal without failure has returned
\* every regular file under the roots by then.
C19_EmptyFilter ==
    /\ [](EmptyFilter => tried = <<>> /\ Yielded = <<>> /\ handles.mostFiles = 0)
    /\ [](EmptyFilter /\ Ended =>
            \A d \in DirsReachable : Clean(d) => Count(d, opened) >= 1)
    /\ (EmptyFilter /\ pc = "loop") ~> Ended
    /\ [](~extensions.some /\ Ended /\ ErrItems = {} =>
            \A p \in FilesUnderRoots : Count(p, Yielded) >= 1)

\* a traversal with an empty filter has ended: it opened the root and a
\* directory in it, it passed a regular file, and it returned no item
C19_Witness ==
    /\ Ended
    /\ EmptyFilter
    /\ items = <<>>
    /\ Len(opened) = 2
    /\ \E p \in FilesUnderRoots : Count(Parent(p), opened) = 1

\* the k-th visit opens a root: the pending list was never as short before
RootVisit(k) == \A j \in 1..(k - 1) : Len(visits[j].rest) > Len(visits[k].rest)

\* the place in dirs of the root the k-th visit opens, if it opens a root
RootPlace(k) == IF k = 1 THEN 1 ELSE Len(visits[k].rest) + 2

\* the last visit of a root before the k-th visit
RootBefore(k) == CHOOSE j \in 1..(k - 1) :
                    RootVisit(j) /\ \A i \in (j + 1)..(k - 1) : ~RootVisit(i)

\* C20: the roots are taken first-then-backwards.  The first visit opens
\* dirs[1] and leaves the other roots pending in argument order.  Every later
\* visit either opens a directory beneath the root opened last, or, when
\* that root and everything beneath it is exhausted, opens the last root
\* still pending, the roots behind it being those that could not be opened,
\* whose failures were returned before.  The files returned between the
\* opening of a root and the opening of the next lie beneath it, and by the
\* opening of the next (or by the end) every directory and every wanted file
\* beneath it on which nothing failed has been opened or returned.  When the
\* end is signalled every root that can be opened has been opened in its turn.
C20_RootOrder ==
    /\ visits # <<>> => visits[1] = [dir |-> dirs[1], rest |-> Tail(dirs), n |-> 0]
    /\ \A k \in 2..Len(visits) :
          LET j == RootBefore(k)
          IN  IF RootVisit(k)
              THEN /\ visits[k].dir = dirs[RootPlace(k)]
                   /\ visits[k].rest = SubSeq(dirs, 2, RootPlace(k) - 1)
                   /\ RootPlace(k) >= 2
                   /\ j = 1 \/ RootPlace(k) < RootPlace(j)
                   /\ \A i \in (RootPlace(k) + 1)..(IF j = 1 THEN Len(dirs) ELSE RootPlace(j) - 1) :
                         \E x \in (visits[j].n + 1)..visits[k].n :
                            items[x] = ErrItem(dirs[i], "open")
              ELSE Under(visits[k].dir, visits[j].dir)
    /\ \A k \in 1..Len(visits) :
          RootVisit(k) =>
             /\ \A i \in Block(k) : items[i].tag = "ok" => Under(items[i].path, visits[k].dir)
             /\ After(k) # {} => RootVisit(Least(After(k)))
             /\ Left(k) =>
                   /\ \A d \in DOMAIN fs :
                         fs[d] = "dir" /\ Under(d, visits[k].dir) /\ Clean(d)
                         => \E j \in Beneath(k) : visits[j].dir = d
                   /\ \A f \in DOMAIN fs :
                         fs[f] = "file" /\ Under(f, visits[k].dir) /\ Clean(f) /\ Wanted(f)
                         => \E i \in Block(k) : items[i] = OkItem(f)
    /\ Ended =>
          \A i \in 2..Len(dirs) :
             \/ \E k \in 2..Len(visits) : RootVisit(k) /\ RootPlace(k) = i
             \/ ErrItem(dirs[i], "open") \in ErrItems

\* a traversal of three roots has ended: the first was opened by the
\* construction, then the third, which does not exist, was tried and its
\* failure returned, and the second was opened last
C20_Witness ==
    /\ Ended
    /\ Len(dirs) = 3
    /\ dirs[3] = Missing
    /\ dirs[2] # dirs[1]
    /\ visits[1].dir = dirs[1]
    /\ RootVisit(Len(visits))
    /\ visits[Len(visits)].dir = dirs[2]
    /\ visits[Len(visits)].rest = <<>>
    /\ visits[Len(visits)].n = 1
    /\ items = << ErrItem(Missing, "open") >>

====
